---- MODULE Spec2Model ----
(***************************************************************************)
(* Flo(w)Git stack consistency engine: the stack registry kept in git      *)
(* config (tracked list, parent pointers) and the commands that read and   *)
(* write it (create, co, restack, sync), over an abstract git repository.  *)
(* One command runs at a time; a command is a sequence of steps selected   *)
(* by pc, and no other command starts before pc is back to "idle".         *)
(***************************************************************************)
EXTENDS Integers, Sequences, FiniteSets, TLC

\* ------------------------------------------------------------------ bounds
MaxCmds == 2
MaxCommits == 1
MaxDepth == 4

\* ------------------------------------------------------------ name universe
null == "<null>"
NoBranch == ""
NoTarget == null
getTrunkBranch == "main"
trunk == getTrunkBranch
Names == {"main", "in", "f", "fx"}
NonTrunk == Names \ {trunk}
Comma == ","

\* The characters of a branch name (String.prototype.includes works on these).
Chars(n) ==
  CASE n = "main" -> <<"m", "a", "i", "n">>
    [] n = "in"   -> <<"i", "n">>
    [] n = "f"    -> <<"f">>
    [] n = "fx"   -> <<"f", "x">>
    [] OTHER      -> <<>>

Includes(hay, needle) ==
  \E i \in 0..(Len(hay) - Len(needle)) : SubSeq(hay, i + 1, i + Len(needle)) = needle

Range(s) == {s[i] : i \in 1..Len(s)}
Contains(s, x) == \E i \in 1..Len(s) : s[i] = x

VARIABLES
  refs,            \* local branches (refs/heads)
  current,         \* output of `git branch --show-current` (NoBranch when detached)
  cfgTracked,      \* config key flowgit.tracked: unset, or names joined by commas
  parent,          \* config values flowgit.branch.<name>.parent (null when unset)
  pc,              \* position of the running command ("idle": none, "exit": it ended)
  cmds,            \* number of commands started
  cmd,             \* the command that is running or has just ended
  status,          \* how the command ended
  currentBranch,   \* the command's local `currentBranch`
  queue,           \* branches the running loop has not visited yet
  mergedBranches, closedBranches, divergedBranches, syncedCount,
  dropped, fastForwarded, untouched,   \* loop outcomes the code keeps no list of
  ansMerged, ansClosed,                \* answers to the two sync prompts
  deleted,         \* branches whose ref this sync run removed
  pre,             \* registry and refs when the running command started
  parentBranch,    \* restack's local `parentBranch`
  frames,          \* the loops over children that restack has open, innermost last
  explicitTarget,  \* the target given to restack (NoTarget: none)
  rebased,         \* the rebases this restack run has completed, in order
  branchesToSubmit,  \* submit's local `branchesToSubmit`
  pushes,          \* the pushes this submit run has made: branch processed, ref pushed
  opened,          \* the pull requests this submit run has created
  onRemote,        \* the branches this submit run found on origin or put there
  prLog,           \* what the PR loop of this submit run did, branch by branch
  tips,            \* the commits each local branch holds, where they are followed
  lastRun          \* the restack run that ended just before this command, if it succeeded

registry == <<cfgTracked, parent>>
outcomes == <<mergedBranches, closedBranches, divergedBranches, syncedCount,
              dropped, fastForwarded, untouched>>
syncLocals == <<queue, outcomes, ansMerged, ansClosed, deleted>>
restackLocals == <<parentBranch, frames, explicitTarget, rebased>>
submitLocals == <<branchesToSubmit, pushes, opened, onRemote, prLog>>
vars == <<refs, current, cfgTracked, parent, pc, cmds, cmd, status, currentBranch,
          queue, mergedBranches, closedBranches, divergedBranches, syncedCount,
          dropped, fastForwarded, untouched, ansMerged, ansClosed, deleted, pre,
          parentBranch, frames,
          explicitTarget, rebased, branchesToSubmit, pushes, opened, onRemote, prLog,
          tips, lastRun>>
content == <<tips, lastRun>>

\* --------------------------------------------------------- config.ts (lib)
\* Array.prototype.join(',')
RECURSIVE Join(_)
Join(list) ==
  IF list = <<>> THEN <<>>
  ELSE IF Len(list) = 1 THEN <<list[1]>>
  ELSE <<list[1], Comma>> \o Join(Tail(list))

\* String.prototype.split(',') followed by filter(b => b.trim())
Split(value) == SelectSeq(value, LAMBDA t : t # Comma /\ t # NoBranch)

\* getConfig('flowgit.tracked'): null when the key is unset (git config exits 1).
Unset == [isSet |-> FALSE, value |-> <<>>]
SetTo(value) == [isSet |-> TRUE, value |-> value]

getTrackedBranchesOf(cfg) == IF ~cfg.isSet \/ cfg.value = <<>> THEN <<>> ELSE Split(cfg.value)
getTrackedBranches == getTrackedBranchesOf(cfgTracked)

addTrackedBranchTo(cfg, branchName) ==
  LET t == getTrackedBranchesOf(cfg) IN
  IF Contains(t, branchName) THEN cfg ELSE SetTo(Join(Append(t, branchName)))

removeTrackedBranchFrom(cfg, branchName) ==
  LET filtered == SelectSeq(getTrackedBranchesOf(cfg), LAMBDA b : b # branchName) IN
  IF Len(filtered) > 0 THEN SetTo(Join(filtered)) ELSE Unset

getParentBranchIn(par, branchName) == IF branchName \in DOMAIN par THEN par[branchName] ELSE null
getParentBranch(branchName) == getParentBranchIn(parent, branchName)

setParentBranchIn(par, branchName, newParent) == [par EXCEPT ![branchName] = newParent]

getChildrenIn(cfg, par, branchName) ==
  SelectSeq(getTrackedBranchesOf(cfg), LAMBDA b : getParentBranchIn(par, b) = branchName)
getChildren(branchName) == getChildrenIn(cfgTracked, parent, branchName)

\* getStackToTrunk: the loop runs once per name it visits; a walk that has made
\* more iterations than there are names has revisited one and never returns.
Diverges == <<null>>

\* The same walk with `stack.push(current)` in place of `stack.unshift(current)`.
RECURSIVE getStackToTrunkLoop_Push(_, _, _, _)
getStackToTrunkLoop_Push(par, stack, cur, fuel) ==
  IF ~(cur # NoBranch /\ cur # trunk) THEN stack
  ELSE IF fuel = 0 THEN Diverges
  ELSE LET pushed == stack \o <<cur>>
           p == getParentBranchIn(par, cur)
       IN IF p = null \/ p = NoBranch \/ p = trunk
          THEN pushed
          ELSE getStackToTrunkLoop_Push(par, pushed, p, fuel - 1)

RECURSIVE getStackToTrunkLoop(_, _, _, _)
getStackToTrunkLoop(par, stack, cur, fuel) ==
  IF ~(cur # NoBranch /\ cur # trunk) THEN stack
  ELSE IF fuel = 0 THEN Diverges
  ELSE LET unshifted == <<cur>> \o stack
           p == getParentBranchIn(par, cur)
       IN IF p = null \/ p = NoBranch \/ p = trunk
          THEN unshifted
          ELSE getStackToTrunkLoop(par, unshifted, p, fuel - 1)

getStackToTrunkIn(par, branchName) ==
  getStackToTrunkLoop(par, <<>>, branchName, Cardinality(Names))
getStackToTrunk(branchName) == getStackToTrunkIn(parent, branchName)

\* ------------------------------------------------------------ git.ts (lib)
\* `git branch --merged <trunk>` prints one line per merged branch; isMerged
\* tests the whole output with String.prototype.includes.
isMerged(branchName, mergedOutput) ==
  \E line \in mergedOutput : Includes(Chars(line), Chars(branchName))

\* `git checkout <b>` can only succeed for an existing branch.
CheckoutOk(b, ok) == ok /\ b \in refs

\* What a branch holds is a set of commits: the work committed on a branch of
\* some name, and what origin has of a branch beyond the local one.  A detached
\* HEAD is not followed.
Work(n) == <<"work", n>>
Upstream(n) == <<"origin", n>>
NoCommits == [n \in Names |-> {}]
tipOf(t, b) == IF b \in Names THEN t[b] ELSE {}

\* No restack run to remember.
NoRun == [branch |-> NoBranch, onto |-> NoBranch, tip |-> {}, ontoTip |-> {}]

\* `git checkout -b <b>`: the new branch starts at HEAD.
createBranch(t, b, head) == [t EXCEPT ![b] = tipOf(t, head)]

\* `git commit` with HEAD on b.
commit(t, b) == [t EXCEPT ![b] = @ \cup {Work(b)}]

\* `git branch -d|-D <b>`
deleteBranch(t, b) == [t EXCEPT ![b] = {}]

\* `git pull` with HEAD on head: the branch takes in what origin has of it.
pull(t, head) == IF head \in Names THEN [t EXCEPT ![head] = @ \cup {Upstream(head)}] ELSE t

\* `git rebase <targetBranch>` with HEAD on head, when it succeeds: the commits
\* of head now sit on top of those of targetBranch.
rebase(t, head, targetBranch) ==
  IF head \in Names THEN [t EXCEPT ![head] = @ \cup tipOf(t, targetBranch)] ELSE t

\* ------------------------------------------------------------------- state
Snapshot == [tracked |-> cfgTracked, parent |-> parent, refs |-> refs]
NoSnapshot == [tracked |-> Unset, parent |-> [n \in Names |-> null], refs |-> {}]

\* The repository a command finds: a fresh one, or one in which stacks were
\* built earlier by `create` (each script entry: the new branch and the branch it
\* was created on), with any branch checked out.
Fresh == [tracked |-> Unset, parent |-> [n \in Names |-> null], refs |-> {trunk},
          tips |-> commit(NoCommits, trunk)]

RECURSIVE Created(_, _)
Created(repo, script) ==
  IF script = <<>> THEN repo
  ELSE LET branchName == script[1][1]
           on == script[1][2]
       IN Created([tracked |-> addTrackedBranchTo(repo.tracked, branchName),
                   parent |-> setParentBranchIn(repo.parent, branchName, on),
                   refs |-> repo.refs \cup {branchName},
                   tips |-> commit(createBranch(repo.tips, branchName, on), branchName)],
                  Tail(script))

Scripts ==
  { <<>>,
    << <<"in", trunk>>, <<"f", "in">>, <<"fx", "f">> >>,
    << <<"in", trunk>>, <<"f", "in">>, <<"fx", "in">> >> }

\* The locals of a process that has not started (or has gone).
NoLocals ==
  /\ currentBranch' = NoBranch
  /\ queue' = <<>>
  /\ mergedBranches' = <<>>
  /\ closedBranches' = <<>>
  /\ divergedBranches' = <<>>
  /\ syncedCount' = 0
  /\ dropped' = {}
  /\ fastForwarded' = {}
  /\ untouched' = {}
  /\ ansMerged' = "none"
  /\ ansClosed' = "none"
  /\ deleted' = {}
  /\ parentBranch' = NoBranch
  /\ frames' = <<>>
  /\ explicitTarget' = NoTarget
  /\ rebased' = <<>>
  /\ branchesToSubmit' = <<>>
  /\ pushes' = {}
  /\ opened' = {}
  /\ onRemote' = {}
  /\ prLog' = <<>>

\* A command is started from the shell: `const currentBranch = git.getCurrentBranch()`.
StartCommand(name) ==
  /\ pc = "idle"
  /\ cmds < MaxCmds
  /\ cmds' = cmds + 1
  /\ cmd' = name
  /\ pre' = Snapshot
  /\ currentBranch' = current

\* The process of the command that ended is gone; the repository stays.
Finish ==
  /\ pc = "exit"
  /\ pc' = "idle"
  /\ cmd' = "none"
  /\ status' = "none"
  /\ pre' = NoSnapshot
  /\ NoLocals
  /\ UNCHANGED <<refs, current, cfgTracked, parent, cmds>>

\* ------------------------------------------------------ commands/create.ts
\* create.ts 81-91 with trunk recorded whatever was checked out.
createParent_AlwaysTrunk(par, branchName, checkedOut) ==
  setParentBranchIn(par, branchName, trunk)

\* create.ts 81-91: the parent recorded for the new branch.  A swap of the two
\* arguments of setParentBranch would record the new branch as the parent of
\* the branch it was created on.
createParent_Swapped(par, branchName, checkedOut) ==
  setParentBranchIn(par, IF checkedOut # NoBranch THEN checkedOut ELSE trunk, branchName)

createParent(par, branchName, checkedOut) ==
  IF checkedOut # NoBranch /\ checkedOut # trunk
  THEN setParentBranchIn(par, branchName, checkedOut)
  ELSE setParentBranchIn(par, branchName, trunk)

\* createCommand once the commit message (hence branchName) is known.
\* proceed = FALSE: the user cancelled at a staging / empty-branch prompt.
createCommand(branchName, proceed, hasStagedChanges, branchOk, commitOk) ==
  /\ StartCommand("create")
  /\ pc' = "exit"
  /\ UNCHANGED <<syncLocals, restackLocals, submitLocals>>
  /\ IF ~proceed
     THEN /\ status' = "cancelled"
          /\ UNCHANGED <<refs, current, cfgTracked, parent>>
     ELSE IF branchName \in refs \/ ~branchOk
     THEN /\ status' = "error"
          /\ UNCHANGED <<refs, current, cfgTracked, parent>>
     ELSE IF hasStagedChanges /\ ~commitOk
     THEN /\ status' = "error"
          /\ refs' = refs \cup {branchName}
          /\ current' = branchName
          /\ UNCHANGED <<cfgTracked, parent>>
     ELSE /\ status' = "done"
          /\ refs' = refs \cup {branchName}
          /\ current' = branchName
          /\ cfgTracked' = addTrackedBranchTo(cfgTracked, branchName)
          /\ parent' = createParent(parent, branchName, current)

Create ==
  \E branchName \in Names, proceed, hasStagedChanges, branchOk, commitOk \in BOOLEAN :
    createCommand(branchName, proceed, hasStagedChanges, branchOk, commitOk)

\* ---------------------------------------------------------- commands/co.ts
\* checkoutByName without config.addTrackedBranch.
coTracked_Not(cfg, branchName) == cfg

\* co.ts 27, 38: `config.addTrackedBranch(branchName)`: all co writes to the
\* registry.
coTracked(cfg, branchName) == addTrackedBranchTo(cfg, branchName)

checkoutByName(branchName, checkoutOk, fetchedFromOrigin) ==
  /\ StartCommand("co")
  /\ pc' = "exit"
  /\ UNCHANGED <<syncLocals, restackLocals, submitLocals, parent>>
  /\ IF branchName \in refs
     THEN IF CheckoutOk(branchName, checkoutOk)
          THEN /\ current' = branchName
               /\ cfgTracked' = coTracked(cfgTracked, branchName)
               /\ status' = "done"
               /\ UNCHANGED refs
          ELSE /\ status' = "error"
               /\ UNCHANGED <<refs, current, cfgTracked>>
     ELSE IF fetchedFromOrigin
          THEN /\ refs' = refs \cup {branchName}
               /\ current' = branchName
               /\ cfgTracked' = coTracked(cfgTracked, branchName)
               /\ status' = "done"
          ELSE /\ status' = "error"
               /\ UNCHANGED <<refs, current, cfgTracked>>

Co ==
  \E branchName \in Names, checkoutOk, fetchedFromOrigin \in BOOLEAN :
    checkoutByName(branchName, checkoutOk, fetchedFromOrigin)

\* ------------------------------------------------------------------ index.ts
\* Unknown verbs are forwarded to git: `fgt branch -D <b>` removes a local
\* branch that is not checked out, leaving the registry alone.
passThroughBranchDelete(branchName) ==
  /\ StartCommand("git")
  /\ branchName \in refs
  /\ branchName # current
  /\ refs' = refs \ {branchName}
  /\ status' = "done"
  /\ pc' = "exit"
  /\ UNCHANGED <<current, cfgTracked, parent, syncLocals, restackLocals, submitLocals>>

PassThrough == \E branchName \in NonTrunk : passThroughBranchDelete(branchName)

\* -------------------------------------------------------- commands/sync.ts
\* What git and the tracker would answer about one branch during the loop.
NoPr == [found |-> FALSE, state |-> "", merged |-> FALSE]
PrStatuses ==
  {NoPr} \cup {[found |-> TRUE, state |-> st, merged |-> m] :
                 st \in {"OPEN", "CLOSED", "MERGED"}, m \in BOOLEAN}

\* Lines of `git branch --merged main`: trunk always, plus any local branches.
\* Only lines that contain the branch's name can affect isMerged.
MergedOutputs(branchName) ==
  {{trunk} \cup ms :
     ms \in SUBSET {m \in refs \ {trunk} : Includes(Chars(m), Chars(branchName))}}

\* hasUpstream / hasRemote / compareWithRemote / the fate of a fast-forward.
RemoteViews ==
  {v \in [wasEverPushed : BOOLEAN, remoteExists : BOOLEAN,
          ahead : 0..MaxCommits, behind : 0..MaxCommits,
          checkoutOk : BOOLEAN, pullOk : BOOLEAN] :
     /\ ~v.remoteExists => v.ahead = 0 /\ v.behind = 0
     /\ v.remoteExists => v.wasEverPushed
     /\ \/ v.checkoutOk /\ v.pullOk
        \/ v.behind > 0 /\ v.ahead = 0 /\ (v.checkoutOk \/ v.pullOk)}

Observations(branchName) ==
  [merged : MergedOutputs(branchName), pr : PrStatuses, view : RemoteViews]

\* One iteration of the loop over trackedBranches (sync.ts 65-120) yields the
\* set of things the iteration does to branchName.
\* sync.ts 78-119 with `behind > 0` alone as the test for a fast-forward.
classifyUnmerged_AnyBehind(branchName, o) ==
  IF o.pr.found /\ (o.pr.merged \/ o.pr.state = "MERGED") THEN {"merged"}
  ELSE IF o.pr.found /\ o.pr.state = "CLOSED" THEN {"closed"}
  ELSE IF o.view.wasEverPushed /\ ~o.view.remoteExists THEN {"merged"}
  ELSE IF o.view.remoteExists /\ o.view.behind > 0
       THEN IF ~CheckoutOk(branchName, o.view.checkoutOk) THEN {"diverged"}
            ELSE IF o.view.pullOk THEN {"checkout", "ff"}
            ELSE {"checkout", "diverged"}
  ELSE {"untouched"}

\* sync.ts 78-119: what follows the local merge check.
classifyUnmerged(branchName, o) ==
  IF o.pr.found /\ (o.pr.merged \/ o.pr.state = "MERGED") THEN {"merged"}
  ELSE IF o.pr.found /\ o.pr.state = "CLOSED" THEN {"closed"}
  ELSE IF o.view.wasEverPushed /\ ~o.view.remoteExists THEN {"merged"}
  ELSE IF o.view.remoteExists /\ o.view.behind > 0 /\ o.view.ahead = 0
       THEN IF ~CheckoutOk(branchName, o.view.checkoutOk) THEN {"diverged"}
            ELSE IF o.view.pullOk THEN {"checkout", "ff"}
            ELSE {"checkout", "diverged"}
  ELSE IF o.view.remoteExists /\ o.view.behind > 0 /\ o.view.ahead > 0 THEN {"diverged"}
  ELSE {"untouched"}

\* The chain without the `continue` that follows mergedBranches.push (sync.ts 75).
syncClassify_FallThrough(branchName, o) ==
  IF branchName \notin refs THEN {"dropped"}
  ELSE IF isMerged(branchName, o.merged)
       THEN {"merged"} \cup classifyUnmerged(branchName, o)
  ELSE classifyUnmerged(branchName, o)

syncClassify(branchName, o) ==
  IF branchName \notin refs THEN {"dropped"}
  ELSE IF isMerged(branchName, o.merged) THEN {"merged"}
  ELSE classifyUnmerged(branchName, o)

\* sync.ts 28-32: the catch around the trunk update ends the process; without
\* its process.exit(1) the run would go on to the loop.
afterTrunkFailure_GoOn == "sync_loop"

afterTrunkFailure == "exit"

\* sync.ts 57
syncTrackedBranches(tracked) == SelectSeq(tracked, LAMBDA b : b # trunk)

\* sync.ts 139 and 154: `if (shouldDelete)`; a test for "not cancelled" would
\* delete on a declined prompt too.
shouldDelete_Unless(answer) == answer # "cancel"

shouldDelete(answer) == answer = "yes"

\* sync.ts 14-57
SyncBegin ==
  /\ StartCommand("sync")
  /\ UNCHANGED <<refs, cfgTracked, parent, outcomes, ansMerged, ansClosed, deleted,
                 restackLocals, submitLocals>>
  /\ \E fetchOk, trunkCheckoutOk, pullOk, backOk \in BOOLEAN :
       IF ~fetchOk
       THEN /\ status' = "fetch-failed"
            /\ pc' = "exit"
            /\ UNCHANGED <<current, queue>>
       ELSE IF ~CheckoutOk(trunk, trunkCheckoutOk) \/ ~pullOk
       THEN /\ status' = "trunk-failed"
            /\ pc' = afterTrunkFailure
            /\ current' = IF CheckoutOk(trunk, trunkCheckoutOk) THEN trunk ELSE current
            /\ queue' = IF afterTrunkFailure = "exit" THEN queue
                        ELSE syncTrackedBranches(getTrackedBranches)
       ELSE /\ status' = "running"
            /\ pc' = "sync_loop"
            /\ current' = IF current # trunk /\ CheckoutOk(current, backOk)
                          THEN current ELSE trunk
            /\ queue' = syncTrackedBranches(getTrackedBranches)

SyncClassifyWith(branchName, o) ==
  LET k == syncClassify(branchName, o) IN
  /\ pc = "sync_loop"
  /\ queue # <<>>
  /\ branchName = Head(queue)
  /\ queue' = Tail(queue)
  /\ cfgTracked' = IF "dropped" \in k
                   THEN removeTrackedBranchFrom(cfgTracked, branchName) ELSE cfgTracked
  /\ dropped' = IF "dropped" \in k THEN dropped \cup {branchName} ELSE dropped
  /\ mergedBranches' = IF "merged" \in k
                       THEN Append(mergedBranches, branchName) ELSE mergedBranches
  /\ closedBranches' = IF "closed" \in k
                       THEN Append(closedBranches, branchName) ELSE closedBranches
  /\ divergedBranches' = IF "diverged" \in k
                         THEN Append(divergedBranches, branchName) ELSE divergedBranches
  /\ syncedCount' = IF "ff" \in k THEN syncedCount + 1 ELSE syncedCount
  /\ fastForwarded' = IF "ff" \in k THEN fastForwarded \cup {branchName} ELSE fastForwarded
  /\ untouched' = IF "untouched" \in k THEN untouched \cup {branchName} ELSE untouched
  /\ current' = IF "checkout" \in k THEN branchName ELSE current
  /\ UNCHANGED <<refs, parent, pc, cmds, cmd, status, currentBranch, ansMerged, ansClosed,
                 deleted, pre, restackLocals, submitLocals>>

SyncClassify ==
  /\ pc = "sync_loop"
  /\ queue # <<>>
  /\ \E o \in Observations(Head(queue)) : SyncClassifyWith(Head(queue), o)

\* promptConfirmation (prompts.ts): yes, no, or the prompt is cancelled, which
\* exits the process on the spot.
Answers == {"yes", "no", "cancel"}

\* sync.ts 122-144: back to the original branch, then the merged group.
SyncRestore ==
  /\ pc = "sync_loop"
  /\ queue = <<>>
  /\ \E backOk \in BOOLEAN :
       current' = IF currentBranch # trunk /\ currentBranch \in refs
                     /\ CheckoutOk(currentBranch, backOk)
                  THEN currentBranch ELSE current
  /\ UNCHANGED <<refs, cfgTracked, parent, cmds, cmd, currentBranch, pre, restackLocals, submitLocals,
                 outcomes, ansClosed, deleted>>
  /\ IF mergedBranches = <<>>
     THEN /\ pc' = "sync_closed"
          /\ UNCHANGED <<ansMerged, queue, status>>
     ELSE \E answer \in Answers :
            /\ ansMerged' = answer
            /\ queue' = IF answer # "cancel" /\ shouldDelete(answer)
                        THEN mergedBranches ELSE queue
            /\ pc' = IF answer = "cancel" THEN "exit"
                     ELSE IF shouldDelete(answer) THEN "sync_del_merged"
                     ELSE "sync_closed"
            /\ status' = IF answer = "cancel" THEN "cancelled" ELSE status

\* sync.ts 146-175: the closed group; with nothing to delete, the summary.
SyncPromptClosed ==
  /\ pc = "sync_closed"
  /\ UNCHANGED <<refs, current, cfgTracked, parent, cmds, cmd, currentBranch, pre, restackLocals, submitLocals,
                 outcomes, ansMerged, deleted>>
  /\ IF closedBranches = <<>>
     THEN /\ pc' = "exit"
          /\ status' = "done"
          /\ UNCHANGED <<ansClosed, queue>>
     ELSE \E answer \in Answers :
            /\ ansClosed' = answer
            /\ queue' = IF answer # "cancel" /\ shouldDelete(answer)
                        THEN closedBranches ELSE queue
            /\ pc' = IF answer # "cancel" /\ shouldDelete(answer)
                     THEN "sync_del_closed" ELSE "exit"
            /\ status' = IF answer = "cancel" THEN "cancelled"
                         ELSE IF shouldDelete(answer) THEN status
                         ELSE "done"

\* sync.ts 207-222: the loop `for (const child of children) setParentBranch(...)`.
RECURSIVE setParentOfEach(_, _, _)
setParentOfEach(par, children, grandparent) ==
  IF children = <<>> THEN par
  ELSE setParentOfEach(setParentBranchIn(par, Head(children), grandparent),
                       Tail(children), grandparent)

\* Adoption that takes every tracked branch for a child.
adoptChildrenToGrandparent_All(cfg, par, branchToDelete) ==
  LET children == SelectSeq(getTrackedBranchesOf(cfg), LAMBDA b : b # branchToDelete)
      p == getParentBranchIn(par, branchToDelete)
      grandparent == IF p # null /\ p # NoBranch THEN p ELSE trunk
  IN IF Len(children) = 0 THEN par ELSE setParentOfEach(par, children, grandparent)

adoptChildrenToGrandparent(cfg, par, branchToDelete) ==
  LET children == getChildrenIn(cfg, par, branchToDelete)
      p == getParentBranchIn(par, branchToDelete)
      grandparent == IF p # null /\ p # NoBranch THEN p ELSE trunk
  IN IF Len(children) = 0 THEN par ELSE setParentOfEach(par, children, grandparent)

\* sync.ts 181-202.  switchOk: `git checkout main` works; deleteOk / forceOk:
\* `git branch -d` / `git branch -D` accept (neither can delete the branch HEAD
\* is on, nor one that does not exist).  After the last branch of the closed
\* group comes the summary (sync.ts 161-175).
\* sync.ts 183 without its test: trunk is never checked out first.
mustSwitch_Never(branchName, startBranch) == FALSE

\* sync.ts 183: `if (branchName === currentBranch)`.
mustSwitch(branchName, startBranch) == branchName = startBranch

\* sync.ts 191-195 without the fallback in the catch.
deleteRef_NoForce(deletable, deleteOk, forceOk) == deletable /\ deleteOk

\* sync.ts 191-195: `git branch -d`, and `git branch -D` when that throws.
deleteRef(deletable, deleteOk, forceOk) == deletable /\ (deleteOk \/ forceOk)

deleteBranchCleanly(branchName, switchOk, deleteOk, forceOk) ==
  LET head == IF mustSwitch(branchName, currentBranch) THEN trunk ELSE current
      deletable == branchName \in refs /\ branchName # head
      gone == deleteRef(deletable, deleteOk, forceOk)
      last == Tail(queue) = <<>>
  IN IF mustSwitch(branchName, currentBranch) /\ ~CheckoutOk(trunk, switchOk)
     THEN /\ pc' = "exit"
          /\ status' = "error"
          /\ UNCHANGED <<refs, current, cfgTracked, parent, queue, deleted>>
     ELSE /\ current' = head
          /\ parent' = adoptChildrenToGrandparent(cfgTracked, parent, branchName)
          /\ refs' = IF gone THEN refs \ {branchName} ELSE refs
          /\ cfgTracked' = IF gone THEN removeTrackedBranchFrom(cfgTracked, branchName)
                           ELSE cfgTracked
          /\ deleted' = IF gone THEN deleted \cup {branchName} ELSE deleted
          /\ queue' = Tail(queue)
          /\ pc' = IF ~last THEN pc
                   ELSE IF pc = "sync_del_merged" THEN "sync_closed" ELSE "exit"
          /\ status' = IF last /\ pc = "sync_del_closed" THEN "done" ELSE status

SyncDelete ==
  /\ pc \in {"sync_del_merged", "sync_del_closed"}
  /\ queue # <<>>
  /\ \E switchOk, deleteOk, forceOk \in BOOLEAN :
       deleteBranchCleanly(Head(queue), switchOk, deleteOk, forceOk)
  /\ UNCHANGED <<cmds, cmd, currentBranch, pre, restackLocals, submitLocals, outcomes, ansMerged, ansClosed>>

\* ----------------------------------------------------- commands/restack.ts
\* The reparenting preamble without `ensure branch is tracked`.
reparent_NotPersisted(cfg, par, branch, target) ==
  IF target = NoTarget \/ target = getParentBranchIn(par, branch)
  THEN [error |-> "none", tracked |-> cfg, parent |-> par]
  ELSE IF target = branch
  THEN [error |-> "SelfReparent", tracked |-> cfg, parent |-> par]
  ELSE IF target \notin refs
  THEN [error |-> "TargetNotFound", tracked |-> cfg, parent |-> par]
  ELSE [error |-> "none", tracked |-> cfg, parent |-> setParentBranchIn(par, branch, target)]

\* restack <target>: the reparenting preamble.  Yields the registry after it,
\* or the error it stops with.
reparent(cfg, par, branch, target) ==
  IF target = NoTarget \/ target = getParentBranchIn(par, branch)
  THEN [error |-> "none", tracked |-> cfg, parent |-> par]
  ELSE IF target = branch
  THEN [error |-> "SelfReparent", tracked |-> cfg, parent |-> par]
  ELSE IF target \notin refs
  THEN [error |-> "TargetNotFound", tracked |-> cfg, parent |-> par]
  ELSE [error |-> "none",
        tracked |-> addTrackedBranchTo(cfg, branch),
        parent |-> setParentBranchIn(par, branch, target)]

\* restack.ts 17 and submit.ts 25 without the test.
onTrunk_Never(branch) == FALSE

\* restack.ts 17, submit.ts 25: `if (currentBranch === trunk)`.
onTrunk(branch) == branch = trunk

\* restack.ts 13-33: the trunk check, the parent to rebase onto, the fetch.
RestackBegin ==
  /\ StartCommand("restack")
  /\ UNCHANGED <<refs, current, syncLocals, submitLocals, frames, rebased>>
  /\ \E target \in Names \cup {NoTarget} :
       /\ explicitTarget' = target
       /\ IF onTrunk(current)
          THEN /\ status' = "CannotRestackTrunk"
               /\ pc' = "exit"
               /\ UNCHANGED <<cfgTracked, parent, parentBranch>>
          ELSE LET r == reparent(cfgTracked, parent, current, target)
                   recorded == getParentBranchIn(r.parent, current)
               IN IF r.error # "none"
                  THEN /\ status' = r.error
                       /\ pc' = "exit"
                       /\ UNCHANGED <<cfgTracked, parent, parentBranch>>
                  ELSE /\ status' = "running"
                       /\ pc' = "restack_update"
                       /\ cfgTracked' = r.tracked
                       /\ parent' = r.parent
                       /\ parentBranch' = IF recorded # null /\ recorded # NoBranch
                                          THEN recorded ELSE trunk

\* restack.ts 35-46: best-effort update of the parent; every failure is caught
\* where it happens, with HEAD wherever it then is.
RestackUpdateParentWith(hasRemote, checkoutOk, pullOk, backOk) ==
  /\ pc = "restack_update"
  /\ pc' = "restack_rebase"
  /\ current' = IF parentBranch # trunk /\ hasRemote
                   /\ CheckoutOk(parentBranch, checkoutOk)
                   /\ ~(pullOk /\ CheckoutOk(current, backOk))
                THEN parentBranch ELSE current
  /\ UNCHANGED <<refs, cfgTracked, parent, cmds, cmd, status, currentBranch, pre,
                 syncLocals, restackLocals, submitLocals>>

RestackUpdateParent ==
  \E hasRemote, checkoutOk, pullOk, backOk \in BOOLEAN :
    RestackUpdateParentWith(hasRemote, checkoutOk, pullOk, backOk)

\* restack.ts 53-57 without process.exit(1): the conflict is only reported.
stopOnConflict_Not == FALSE

\* restack.ts 53-57: a failed rebase of the branch ends the process.
stopOnConflict == TRUE

\* restack.ts 85-89 without process.exit(1): the loop goes on to the next child.
stopOnChildFailure_Not == FALSE

\* restack.ts 85-89, 118-121: a failed checkout or rebase of a descendant is
\* rethrown up to the outermost loop, which ends the process.
stopOnChildFailure == TRUE

\* restack.ts 48-71: the rebase of HEAD onto the parent (a conflict leaves the
\* rebase in progress: HEAD is detached), then the children and the prompt.
RestackRebase ==
  /\ pc = "restack_rebase"
  /\ UNCHANGED <<refs, cfgTracked, parent, cmds, cmd, currentBranch, pre, syncLocals,
                 submitLocals, parentBranch, explicitTarget>>
  /\ \E rebaseOk \in BOOLEAN :
       IF ~rebaseOk /\ stopOnConflict
       THEN /\ status' = "RebaseConflict"
            /\ pc' = "exit"
            /\ current' = NoBranch
            /\ UNCHANGED <<frames, rebased>>
       ELSE LET children == getChildren(currentBranch)
                verdict == IF rebaseOk THEN "done" ELSE "RebaseConflict"
            IN
            /\ UNCHANGED current
            /\ rebased' = IF rebaseOk
                          THEN Append(rebased, [branch |-> current, onto |-> parentBranch])
                          ELSE rebased
            /\ IF Len(children) = 0
               THEN /\ status' = verdict
                    /\ pc' = "exit"
                    /\ UNCHANGED frames
               ELSE \E answer \in Answers :
                      /\ status' = CASE answer = "yes" ->
                                          IF rebaseOk THEN status ELSE "RebaseConflict"
                                     [] answer = "no" ->
                                          IF rebaseOk THEN "declined" ELSE "RebaseConflict"
                                     [] OTHER -> "cancelled"
                      /\ pc' = IF answer = "yes" THEN "restack_cascade" ELSE "exit"
                      /\ frames' = IF answer = "yes"
                                   THEN <<[onto |-> currentBranch, kids |-> children]>>
                                   ELSE frames

\* restack.ts 73-93 and restackChildrenRecursive (105-123): one turn of the
\* innermost loop over children.  A loop that ends returns to its caller; when
\* the outermost ends, HEAD goes back to the original branch.
RestackCascade ==
  /\ pc = "restack_cascade"
  /\ UNCHANGED <<refs, cfgTracked, parent, cmds, cmd, currentBranch, pre, syncLocals,
                 submitLocals, parentBranch, explicitTarget>>
  /\ LET top == frames[Len(frames)]
         outer == SubSeq(frames, 1, Len(frames) - 1)
     IN IF top.kids = <<>>
        THEN /\ frames' = outer
             /\ UNCHANGED rebased
             /\ IF outer # <<>>
                THEN UNCHANGED <<pc, status, current>>
                ELSE \E backOk \in BOOLEAN :
                       /\ pc' = "exit"
                       /\ status' = IF CheckoutOk(currentBranch, backOk)
                                    THEN IF status = "running" THEN "done" ELSE status
                                    ELSE "error"
                       /\ current' = IF CheckoutOk(currentBranch, backOk)
                                     THEN currentBranch ELSE current
        ELSE LET child == Head(top.kids)
                 skipped == Append(outer, [top EXCEPT !.kids = Tail(top.kids)])
             IN
             \E checkoutOk, rebaseOk \in BOOLEAN :
               IF ~CheckoutOk(child, checkoutOk)
               THEN /\ status' = "ChildCheckoutFailed"
                    /\ pc' = IF stopOnChildFailure THEN "exit" ELSE pc
                    /\ frames' = IF stopOnChildFailure THEN frames ELSE skipped
                    /\ UNCHANGED <<current, rebased>>
               ELSE IF ~rebaseOk
               THEN /\ status' = "ChildRebaseFailed"
                    /\ pc' = IF stopOnChildFailure THEN "exit" ELSE pc
                    /\ frames' = IF stopOnChildFailure THEN frames ELSE skipped
                    /\ current' = IF stopOnChildFailure THEN NoBranch ELSE child
                    /\ UNCHANGED rebased
               ELSE /\ current' = child
                    /\ rebased' = Append(rebased, [branch |-> child, onto |-> top.onto])
                    /\ IF Len(frames) >= MaxDepth
                       THEN /\ pc' = "exit"
                            /\ status' = "unbounded"
                            /\ UNCHANGED frames
                       ELSE /\ frames' = skipped
                                           \o <<[onto |-> child, kids |-> getChildren(child)]>>
                            /\ UNCHANGED <<pc, status>>

\* submit.ts 11-51: the authentication and trunk checks, then the branches to
\* submit: the current branch alone (--current) or its stack to trunk.
SubmitBegin ==
  /\ StartCommand("submit")
  /\ UNCHANGED <<refs, current, cfgTracked, parent, outcomes, ansMerged, ansClosed,
                 deleted, restackLocals, pushes, opened, onRemote, prLog>>
  /\ \E isGhAuthenticated, onlyCurrent \in BOOLEAN :
       LET stack == IF onlyCurrent THEN <<current>> ELSE getStackToTrunk(current)
           verdict == CASE ~isGhAuthenticated -> "NotAuthenticated"
                        [] onTrunk(current) -> "CannotSubmitTrunk"
                        [] stack = Diverges -> "unbounded"
                        [] Len(stack) = 0 -> "NoBranches"
                        [] OTHER -> "running"
       IN /\ status' = verdict
          /\ pc' = IF verdict = "running" THEN "submit_push" ELSE "exit"
          /\ branchesToSubmit' = IF verdict = "running" THEN stack ELSE <<>>
          /\ queue' = IF verdict = "running" THEN stack ELSE <<>>

\* What pushBranch sees of the remote: origin/<branch> resolves, the fetch and
\* the push go through, the counts of compareWithRemote.
PushViews ==
  {v \in [hasRemote : BOOLEAN, fetchOk : BOOLEAN, pushOk : BOOLEAN,
          ahead : 0..MaxCommits, behind : 0..MaxCommits] :
     ~v.hasRemote => v.ahead = 0 /\ v.behind = 0 /\ v.fetchOk}

\* pushBranch with the tests for behind and ahead in the other order: a branch
\* that is both ahead and behind gets the ordinary push.
pushKind_AheadFirst(v) ==
  CASE ~v.hasRemote -> "upstream"
    [] v.ahead > 0 -> "plain"
    [] v.behind > 0 -> "force"
    [] OTHER -> "none"

\* submit.ts 66-94 (pushBranch): the push it makes for what it sees, if any.
pushKind(v) ==
  CASE ~v.hasRemote -> "upstream"
    [] v.behind > 0 -> "force"
    [] v.ahead > 0 -> "plain"
    [] OTHER -> "none"

\* git.ts push (163-172): the branch is named on the command line only with
\* -u origin; the other pushes push what is checked out.
pushedRef(kind, branchName, checkedOut) ==
  IF kind = "upstream" THEN branchName ELSE checkedOut

\* The push loop with a catch around pushBranch that reports and goes on.
stopOnPushFailure_Not == FALSE

\* submit.ts 54-56: nothing catches a fetch or push that throws in pushBranch;
\* the process ends there.
stopOnPushFailure == TRUE

\* submit.ts 54-56: one turn of the push loop, for one view of the remote.  A
\* branch that gets through it is on origin: it was found there, or the push
\* with -u put it there.
SubmitPushWith(v) ==
  /\ pc = "submit_push"
  /\ UNCHANGED <<refs, current, cfgTracked, parent, cmds, cmd, currentBranch, pre,
                 outcomes, ansMerged, ansClosed, deleted, restackLocals,
                 branchesToSubmit, opened, prLog>>
  /\ LET branchName == Head(queue)
         kind == pushKind(v)
         ref == pushedRef(kind, branchName, current)
         failure == IF ~v.fetchOk THEN "FetchFailed"
                    ELSE IF kind # "none" /\ ~(v.pushOk /\ ref \in refs) THEN "PushFailed"
                    ELSE "none"
     IN IF failure # "none" /\ stopOnPushFailure
        THEN /\ status' = failure
             /\ pc' = "exit"
             /\ UNCHANGED <<queue, pushes, onRemote>>
        ELSE /\ pushes' = IF kind = "none" \/ failure # "none" THEN pushes
                          ELSE pushes \cup {[branch |-> branchName, ref |-> ref,
                                             kind |-> kind]}
             /\ onRemote' = IF v.hasRemote \/ failure = "none"
                            THEN onRemote \cup {branchName} ELSE onRemote
             /\ status' = IF failure # "none" THEN failure ELSE status
             /\ IF Tail(queue) = <<>>
                THEN pc' = "submit_pr" /\ queue' = branchesToSubmit
                ELSE pc' = pc /\ queue' = Tail(queue)

SubmitPush == \E v \in PushViews : SubmitPushWith(v)

\* submit.ts 117: `config.getParentBranch(branchName) || trunk`.
prBase(branchName) ==
  LET p == getParentBranch(branchName)
  IN IF p = null \/ p = NoBranch THEN trunk ELSE p

\* createOrUpdatePR with a catch that gives up: process.exit(1) after the report.
stopOnCreateFailure_Yes == TRUE

\* submit.ts 165-180: the catch around gh.createPR reports the failure and
\* returns; the loop goes on.
stopOnCreateFailure == FALSE

\* submit.ts 61-63 and createOrUpdatePR (96-181): one turn of the PR loop.  An
\* existing PR is only shown (and its description offered for update); a new
\* one is created by `gh pr create --base <parent>` for what is checked out,
\* and a failure to create it is reported and passed over.
SubmitPR ==
  /\ pc = "submit_pr"
  /\ UNCHANGED <<refs, current, cfgTracked, parent, cmds, cmd, currentBranch, pre,
                 outcomes, ansMerged, ansClosed, deleted, restackLocals,
                 branchesToSubmit, pushes, onRemote>>
  /\ LET branchName == Head(queue)
         last == Tail(queue) = <<>>
     IN \E existingPR, createOk \in BOOLEAN, answer \in Answers :
          LET outcome == IF existingPR THEN "existing"
                         ELSE IF createOk THEN "created" ELSE "failed"
          IN IF existingPR /\ answer = "cancel"
             THEN /\ status' = "cancelled"
                  /\ pc' = "exit"
                  /\ UNCHANGED <<queue, opened, prLog>>
             ELSE /\ opened' = IF outcome = "created"
                               THEN opened \cup {[branch |-> branchName, head |-> current,
                                                  base |-> prBase(branchName)]}
                               ELSE opened
                  /\ prLog' = Append(prLog, [branch |-> branchName, outcome |-> outcome])
                  /\ IF outcome = "failed" /\ stopOnCreateFailure
                     THEN /\ status' = "CreateFailed"
                          /\ pc' = "exit"
                          /\ UNCHANGED queue
                     ELSE /\ queue' = Tail(queue)
                          /\ pc' = IF last THEN "exit" ELSE pc
                          /\ status' = IF last THEN "done" ELSE status

Submit == SubmitBegin \/ SubmitPush \/ SubmitPR

Restack == RestackBegin \/ RestackUpdateParent \/ RestackRebase \/ RestackCascade

Sync == SyncBegin \/ SyncClassify \/ SyncRestore \/ SyncPromptClosed \/ SyncDelete

\* A repository left by four earlier commands on the chain in <- f <- fx:
\* `git branch -D in` (the registry keeps `in`), `create in` on f (f and `in` are
\* now each other's parent), then a sync that deletes the merged `in` and hands
\* its child f to the parent of `in`, which is f itself.
SelfParented ==
  LET chain == Created(Fresh, << <<"in", trunk>>, <<"f", "in">>, <<"fx", "f">> >>)
      gone == [chain EXCEPT !.refs = @ \ {"in"}, !.tips = deleteBranch(@, "in")]
      again == Created(gone, << <<"in", "f">> >>)
  IN [tracked |-> removeTrackedBranchFrom(again.tracked, "in"),
      parent |-> adoptChildrenToGrandparent(again.tracked, again.parent, "in"),
      refs |-> again.refs \ {"in"},
      tips |-> deleteBranch(again.tips, "in")]

StartRepos == {Created(Fresh, script) : script \in Scripts} \cup {SelfParented}

\* Nothing has run yet in the repository; held: what its branches are taken to
\* hold.
Start(repo, held) ==
  /\ refs = repo.refs
  /\ cfgTracked = repo.tracked
  /\ parent = repo.parent
  /\ tips = held
  /\ lastRun = NoRun
  /\ current \in refs
  /\ pc = "idle"
  /\ cmds = 0
  /\ cmd = "none"
  /\ status = "none"
  /\ currentBranch = NoBranch
  /\ queue = <<>>
  /\ mergedBranches = <<>>
  /\ closedBranches = <<>>
  /\ divergedBranches = <<>>
  /\ syncedCount = 0
  /\ dropped = {}
  /\ fastForwarded = {}
  /\ untouched = {}
  /\ ansMerged = "none"
  /\ ansClosed = "none"
  /\ deleted = {}
  /\ pre = NoSnapshot
  /\ parentBranch = NoBranch
  /\ frames = <<>>
  /\ explicitTarget = NoTarget
  /\ rebased = <<>>
  /\ branchesToSubmit = <<>>
  /\ pushes = {}
  /\ opened = {}
  /\ onRemote = {}
  /\ prLog = <<>>

\* The commands over the registry, the refs and HEAD; what the branches hold is
\* not followed.
Init == \E repo \in StartRepos : Start(repo, NoCommits)

Next ==
  \/ Create /\ UNCHANGED content
  \/ Co /\ UNCHANGED content
  \/ PassThrough /\ UNCHANGED content
  \/ Restack /\ UNCHANGED content
  \/ Sync /\ UNCHANGED content
  \/ Submit /\ UNCHANGED content
  \/ Finish /\ UNCHANGED content

Spec == Init /\ [][Next]_vars

\* restack run after restack run, with what the branches hold followed through
\* the pull of the parent (restack.ts 40) and the rebases (restack.ts 51, 79, 113).
RestackInit == \E repo \in StartRepos : Start(repo, repo.tips)

\* restack.ts 36-46: `git pull` runs once the parent is checked out.
RestackUpdateParentTipsWith(hasRemote, checkoutOk, pullOk, backOk) ==
  /\ RestackUpdateParentWith(hasRemote, checkoutOk, pullOk, backOk)
  /\ tips' = IF parentBranch # trunk /\ hasRemote
                /\ CheckoutOk(parentBranch, checkoutOk) /\ pullOk
             THEN pull(tips, parentBranch) ELSE tips
  /\ UNCHANGED lastRun

RestackUpdateParentTips ==
  \E hasRemote, checkoutOk, pullOk, backOk \in BOOLEAN :
    RestackUpdateParentTipsWith(hasRemote, checkoutOk, pullOk, backOk)

\* restack.ts 51, 79, 113: every rebase that completed is the last entry of the
\* log of the step in which it ran.
Replayed ==
  IF Len(rebased') > Len(rebased)
  THEN rebase(tips, rebased'[Len(rebased')].branch, rebased'[Len(rebased')].onto)
  ELSE tips

\* What is kept of a run that ended with exit code 0 after its rebase: the
\* branch it was started on, the parent it rebased onto, what both then held.
Ended ==
  IF cmd = "restack" /\ status \in {"done", "declined"}
  THEN [branch |-> currentBranch, onto |-> parentBranch,
        tip |-> tipOf(tips, currentBranch), ontoTip |-> tipOf(tips, parentBranch)]
  ELSE NoRun

RestackNext ==
  \/ RestackBegin /\ UNCHANGED content
  \/ RestackUpdateParentTips
  \/ RestackRebase /\ tips' = Replayed /\ UNCHANGED lastRun
  \/ RestackCascade /\ tips' = Replayed /\ UNCHANGED lastRun
  \/ Finish /\ lastRun' = Ended /\ UNCHANGED tips

RestackSpec == RestackInit /\ [][RestackNext]_vars

\* =================================================================== claims
AtExit(command, outcome) == pc = "exit" /\ cmd = command /\ status = outcome

\* ------------------------------------------------------------------------ C1
\* C1 as stated: for every branch B, stackToTrunk(B) returns a non-empty list
\* whose last element is B and whose adjacent pairs are (parent, child).
IsStackPath(P, B) ==
  /\ P # <<>>
  /\ P[Len(P)] = B
  /\ \A i \in 1..(Len(P) - 1) : getParentBranch(P[i + 1]) = P[i]

C1_EveryBranch ==
  \A B \in Names :
    /\ getStackToTrunk(B) # Diverges
    /\ IsStackPath(getStackToTrunk(B), B)

\* C1 as the code has it: for every branch B other than trunk, stackToTrunk(B)
\* either does not return (the parent pointers from B run into a cycle) or
\* returns a non-empty list that ends in B and whose adjacent pairs are
\* (parent, child); for trunk it returns the empty list.
C1_StackPath ==
  /\ getStackToTrunk(trunk) = <<>>
  /\ \A B \in NonTrunk :
       getStackToTrunk(B) # Diverges => IsStackPath(getStackToTrunk(B), B)

\* A command has run and left a stack three branches deep.
C1_Witness ==
  /\ cmds > 0
  /\ \E B \in NonTrunk :
       getStackToTrunk(B) # Diverges /\ Len(getStackToTrunk(B)) = 3

\* ------------------------------------------------------------------------ C2
RECURSIVE ReachesTrunkWithin(_, _)
ReachesTrunkWithin(B, steps) ==
  IF B = trunk THEN TRUE
  ELSE IF steps = 0 THEN FALSE
  ELSE LET p == getParentBranch(B)
       IN ReachesTrunkWithin(IF p = null \/ p = NoBranch THEN trunk ELSE p, steps - 1)

\* C2: in every reachable registry, following parent pointers from any tracked
\* branch reaches trunk in at most |Tracked Set| steps: there is no cycle.
C2_NoCycle ==
  \A B \in Range(getTrackedBranches) :
    ReachesTrunkWithin(B, Len(getTrackedBranches))

\* ------------------------------------------------------------------------ C3
\* C3: no branch is ever recorded as its own parent.
C3_NoSelfParent == \A B \in Names : getParentBranch(B) # B

\* ------------------------------------------------------------------------ C4
\* C4: in every reachable state trunk has no parent pointer and still exists:
\* no operation deletes trunk or writes a parent pointer for it.
C4_TrunkUntouched == getParentBranch(trunk) = null /\ trunk \in refs

\* A sync that found trunk in the Tracked Set has deleted branches and ended.
C4_Witness ==
  /\ AtExit("sync", "done")
  /\ Contains(getTrackedBranchesOf(pre.tracked), trunk)
  /\ deleted # {}

\* ------------------------------------------------------------------------ C5
Deleting(X) ==
  /\ pc \in {"sync_del_merged", "sync_del_closed"}
  /\ queue # <<>>
  /\ Head(queue) = X

\* C5: when sync deletes X, every tracked branch whose parent was X ends with
\* X's recorded parent (trunk if none) as its parent, X is no longer tracked
\* and getChildren(X) is empty.
C5_GrandparentAdoption ==
  [][\A X \in NonTrunk :
       (Deleting(X) /\ X \in refs /\ X \notin refs') =>
         LET P == getParentBranch(X)
             G == IF P = null \/ P = NoBranch THEN trunk ELSE P
         IN /\ \A Ci \in Range(getChildren(X)) : parent'[Ci] = G
            /\ ~Contains(getTrackedBranchesOf(cfgTracked'), X)
            /\ getChildrenIn(cfgTracked', parent', X) = <<>>]_vars

\* ------------------------------------------------------------------------ C6
\* C6: a deletion of X during sync changes the parent pointer of X's direct
\* children only; every other pointer, a grandchild's included, stays.
C6_OneLevelOnly ==
  [][\A X \in NonTrunk :
       Deleting(X) =>
         \A B \in Names : parent'[B] # parent[B] => getParentBranch(B) = X]_vars

\* Sync deleted X, whose child C was adopted while C's own child G kept C.
C6_Witness ==
  /\ cmd = "sync"
  /\ \E X \in deleted :
       \E C \in NonTrunk \ {X} : \E G \in NonTrunk \ {X, C} :
         /\ pre.parent[C] = X
         /\ pre.parent[G] = C
         /\ parent[C] # X
         /\ parent[G] = C

\* ------------------------------------------------------------------------ C7
SyncStart == syncTrackedBranches(getTrackedBranchesOf(pre.tracked))
Classified ==
  IF pc = "sync_loop" THEN Range(SyncStart) \ Range(queue) ELSE Range(SyncStart)
OutcomeLabels(B) ==
  {l \in {"dropped", "merged", "closed", "ff", "diverged", "untouched"} :
     CASE l = "dropped" -> B \in dropped
       [] l = "merged" -> Contains(mergedBranches, B)
       [] l = "closed" -> Contains(closedBranches, B)
       [] l = "ff" -> B \in fastForwarded
       [] l = "diverged" -> Contains(divergedBranches, B)
       [] OTHER -> B \in untouched}
InSyncRun == cmd = "sync" /\ status \notin {"fetch-failed", "trunk-failed"}

\* C7: in a sync run every tracked branch other than trunk that the loop has
\* visited is in exactly one of dropped, merged, closed, fast-forwarded,
\* diverged, untouched, and no other branch is in any.
C7_Partition ==
  InSyncRun =>
    \A B \in Names :
      Cardinality(OutcomeLabels(B)) = IF B \in Classified THEN 1 ELSE 0

\* The loop is over with three branches in three different outcomes.
C7_Witness ==
  /\ InSyncRun
  /\ pc = "sync_closed"
  /\ Len(SyncStart) = 3
  /\ mergedBranches # <<>>
  /\ closedBranches # <<>>
  /\ divergedBranches # <<>>

\* ------------------------------------------------------------------------ C8
\* The outcomes the stated order allows for B under observation o; a branch is
\* merged by local history when `git branch --merged` lists it.  A
\* fast-forward that fails may be reported as diverged.
FirstMatch(B, o) ==
  IF B \notin refs THEN {"dropped"}
  ELSE IF B \in o.merged THEN {"merged"}
  ELSE IF o.pr.found /\ (o.pr.merged \/ o.pr.state = "MERGED") THEN {"merged"}
  ELSE IF o.pr.found /\ o.pr.state = "CLOSED" THEN {"closed"}
  ELSE IF o.view.wasEverPushed /\ ~o.view.remoteExists THEN {"merged"}
  ELSE IF o.view.behind > 0 /\ o.view.ahead = 0 THEN {"ff", "diverged"}
  ELSE IF o.view.behind > 0 /\ o.view.ahead > 0 THEN {"diverged"}
  ELSE {"untouched"}

\* C8: sync gives each tracked branch the outcome of the first rule that
\* matches, in the stated order; a later rule never overrides an earlier one.
C8_FirstMatch ==
  [][\A B \in NonTrunk :
       (pc = "sync_loop" /\ queue # <<>> /\ Head(queue) = B) =>
         \A o \in Observations(B) :
           SyncClassifyWith(B, o) =>
             /\ OutcomeLabels(B)' # {}
             /\ OutcomeLabels(B)' \subseteq FirstMatch(B, o)]_vars

\* ------------------------------------------------------------------------ C9
\* C9: when the update of trunk fails, sync ends there: nothing is classified,
\* fast-forwarded, deleted or untracked, and the Tracked Set and the parent
\* pointers are those from before the sync.
C9_TrunkFailureAborts ==
  (cmd = "sync" /\ status = "trunk-failed") =>
    /\ pc = "exit"
    /\ cfgTracked = pre.tracked
    /\ parent = pre.parent
    /\ refs = pre.refs
    /\ \A B \in Names : OutcomeLabels(B) = {}
    /\ syncedCount = 0
    /\ deleted = {}

\* The update of trunk failed in a repository with a tracked branch whose ref
\* is gone, which the loop would have untracked.
C9_Witness ==
  /\ AtExit("sync", "trunk-failed")
  /\ \E B \in Range(getTrackedBranches) : B # trunk /\ B \notin refs

\* ----------------------------------------------------------------------- C10
\* C10 as stated: a group whose prompt was declined is untouched whatever the
\* other answer: its branches keep ref, tracking and parent pointer.
Kept(B) == B \in refs /\ Contains(getTrackedBranches, B)

C10_DeclinedUntouched ==
  cmd = "sync" =>
    /\ ansMerged = "no" =>
         \A B \in Range(mergedBranches) : Kept(B) /\ parent[B] = pre.parent[B]
    /\ ansClosed = "no" =>
         \A B \in Range(closedBranches) : Kept(B) /\ parent[B] = pre.parent[B]

\* C10 as the code has it: the branches of a declined group keep ref and
\* tracking, and keep their parent pointer unless their recorded parent was in
\* the other group and the user agreed to delete that group.
C10_DeclinedKept ==
  cmd = "sync" =>
    /\ ansMerged = "no" =>
         \A B \in Range(mergedBranches) :
           /\ Kept(B)
           /\ \/ parent[B] = pre.parent[B]
              \/ ansClosed = "yes" /\ Contains(closedBranches, pre.parent[B])
    /\ ansClosed = "no" =>
         \A B \in Range(closedBranches) :
           /\ Kept(B)
           /\ \/ parent[B] = pre.parent[B]
              \/ ansMerged = "yes" /\ Contains(mergedBranches, pre.parent[B])

\* The closed group was declined, the merged group deleted, and a branch of
\* the closed group was adopted by its grandparent.
C10_Witness ==
  /\ AtExit("sync", "done")
  /\ ansMerged = "yes"
  /\ ansClosed = "no"
  /\ \E B \in Range(closedBranches) : Kept(B) /\ parent[B] # pre.parent[B]

\* ----------------------------------------------------------------------- C11
Accepted ==
  (IF ansMerged = "yes" THEN Range(mergedBranches) ELSE {})
    \cup (IF ansClosed = "yes" THEN Range(closedBranches) ELSE {})

\* C11 as stated: after sync every branch accepted for deletion has lost its
\* local ref and is not in the Tracked Set.
C11_AcceptedAreGone ==
  AtExit("sync", "done") =>
    \A X \in Accepted : X \notin refs /\ ~Contains(getTrackedBranches, X)

\* C11 as the code has it: when sync gets to a branch accepted for deletion, a
\* rejected graceful delete is followed by a forced delete; if either is
\* accepted the ref is gone and the branch untracked; if both are rejected, or
\* the checkout of trunk needed first fails (which ends the run), the branch
\* keeps its ref and stays tracked.
C11_GoneUnlessRejected ==
  [][\A X \in NonTrunk :
       Deleting(X) =>
         \A switchOk, deleteOk, forceOk \in BOOLEAN :
           deleteBranchCleanly(X, switchOk, deleteOk, forceOk) =>
             IF X = currentBranch /\ ~switchOk
             THEN status' = "error" /\ X \in refs' /\ Contains(getTrackedBranches, X)'
             ELSE IF deleteOk \/ forceOk
             THEN X \notin refs' /\ ~Contains(getTrackedBranches, X)'
             ELSE X \in refs' /\ Contains(getTrackedBranches, X)']_vars

\* Sync ended with one accepted branch deleted and another, whose deletes were
\* both rejected, kept.
C11_Witness ==
  /\ AtExit("sync", "done")
  /\ \E X \in Accepted : X \in deleted /\ X \notin refs
  /\ \E Y \in Accepted : Y \notin deleted /\ Y \in refs

\* ----------------------------------------------------------------------- C12
\* C12: sync never runs a delete on the checked-out branch: when the branch it
\* is about to delete is checked out, trunk is checked out first, so after the
\* step HEAD is not on that branch, and is on trunk if it was on it before.
C12_NeverDeletesHead ==
  [][\A X \in NonTrunk :
       (Deleting(X) /\ status' # "error") =>
         /\ current' # X
         /\ current = X => current' = trunk]_vars

\* Sync deleted the branch it was started on and HEAD is on trunk.
C12_Witness ==
  /\ cmd = "sync"
  /\ currentBranch \in deleted
  /\ current = trunk

\* ----------------------------------------------------------------------- C13
\* C13: when sync completes and the branch checked out at its start still
\* exists, that branch is checked out at the end, trunk included.
C13_RestoresStart ==
  (AtExit("sync", "done") /\ currentBranch \in refs) => current = currentBranch

\* ----------------------------------------------------------------------- C14
\* C14 as stated: a tracked branch with ahead > 0 is never checked out or
\* pulled; it ends untouched when behind = 0 and diverged when behind > 0.
C14_AheadUntouched ==
  [][\A B \in NonTrunk :
       (pc = "sync_loop" /\ queue # <<>> /\ Head(queue) = B /\ B \in refs) =>
         \A o \in Observations(B) :
           (o.view.ahead > 0 /\ SyncClassifyWith(B, o)) =>
             /\ current' = current
             /\ OutcomeLabels(B)' =
                  IF o.view.behind = 0 THEN {"untouched"} ELSE {"diverged"}]_vars

\* C14 as the code has it: whenever the loop of sync is at an existing tracked
\* branch, whatever it then observes with ahead > 0, the iteration neither
\* checks the branch out nor pulls it; unless an earlier rule puts the branch
\* in the merged or the closed group (and so before that group's deletion
\* prompt), it is left untouched when behind = 0 and reported as diverged when
\* behind > 0.
C14_AheadNotPulled ==
  (pc = "sync_loop" /\ queue # <<>> /\ Head(queue) \in refs) =>
    \A o \in Observations(Head(queue)) :
      o.view.ahead > 0 =>
        LET k == syncClassify(Head(queue), o)
        IN \/ k \in {{"merged"}, {"closed"}}
           \/ k = IF o.view.behind = 0 THEN {"untouched"} ELSE {"diverged"}

\* The loop is over, with a branch left untouched, a branch reported as
\* diverged, nothing fast-forwarded and HEAD where it was.
C14_Witness ==
  /\ InSyncRun
  /\ pc = "sync_loop"
  /\ queue = <<>>
  /\ untouched # {}
  /\ divergedBranches # <<>>
  /\ syncedCount = 0
  /\ current \notin Range(divergedBranches)

\* C15: restack and submit started with trunk checked out fail before they
\* change anything: the process ends in an error with the registry, the
\* branches and HEAD as they were, nothing rebased, pushed or opened.
C15_TrunkRefused ==
  (cmd \in {"restack", "submit"} /\ currentBranch = trunk) =>
    /\ pc = "exit"
    /\ status \in {"CannotRestackTrunk", "CannotSubmitTrunk", "NotAuthenticated"}
    /\ Snapshot = pre
    /\ current = trunk
    /\ rebased = <<>> /\ frames = <<>>
    /\ pushes = {} /\ opened = {}

C15_Witness ==
  \/ AtExit("restack", "CannotRestackTrunk") /\ explicitTarget \in NonTrunk \cap refs
  \/ AtExit("submit", "CannotSubmitTrunk") /\ getChildren(trunk) # <<>>

\* C16: a restack of branch B with B itself as the explicit target always ends
\* with SelfReparent, the registry as it was and nothing rebased.
C16_SelfReparentRefused ==
  (cmd = "restack" /\ currentBranch \in NonTrunk /\ explicitTarget = currentBranch) =>
    /\ pc = "exit"
    /\ status = "SelfReparent"
    /\ <<cfgTracked, parent>> = <<pre.tracked, pre.parent>>
    /\ rebased = <<>>

\* The restack run is a reparent of a branch: the target given exists and is
\* not the parent recorded for the branch when the run started.
Reparenting ==
  /\ cmd = "restack"
  /\ currentBranch \in NonTrunk
  /\ explicitTarget # NoTarget
  /\ explicitTarget \in pre.refs
  /\ explicitTarget # getParentBranchIn(pre.parent, currentBranch)

\* The run is about to rebase the branch, or has tried to.
RebaseReached ==
  \/ pc \in {"restack_rebase", "restack_cascade"}
  \/ pc = "exit" /\ (rebased # <<>> \/ status = "RebaseConflict")

\* C17: in a reparent, from the moment the rebase is attempted the new parent
\* pointer is recorded and the branch is tracked, and both stay so when the
\* rebase fails (and whatever else happens in the run).
C17_ReparentPersisted ==
  (Reparenting /\ RebaseReached) =>
    /\ getParentBranch(currentBranch) = explicitTarget
    /\ Contains(getTrackedBranches, currentBranch)

C17_Witness ==
  /\ Reparenting
  /\ AtExit("restack", "RebaseConflict")
  /\ ~Contains(getTrackedBranchesOf(pre.tracked), currentBranch)

\* C18: when the rebase of the branch onto its parent fails, restack ends there:
\* the cascade is not entered (no prompt, no child checked out or rebased),
\* HEAD is left in the conflicted rebase, and the registry keeps what the run
\* had written before (the reparent, if there was one).
C18_ConflictStops ==
  (cmd = "restack" /\ status = "RebaseConflict") =>
    LET r == reparent(pre.tracked, pre.parent, currentBranch, explicitTarget)
    IN /\ pc = "exit"
       /\ frames = <<>>
       /\ rebased = <<>>
       /\ current = NoBranch
       /\ refs = pre.refs
       /\ cfgTracked = r.tracked /\ parent = r.parent

C18_Witness ==
  /\ AtExit("restack", "RebaseConflict")
  /\ Reparenting
  /\ getChildren(currentBranch) # <<>>
  /\ \E child \in Range(getChildren(currentBranch)) : child \in refs

\* D is a transitive descendant of A: tracked, with a chain of recorded parents
\* through tracked branches that leads to A.
RECURSIVE DescendantWithin(_, _, _)
DescendantWithin(D, A, steps) ==
  /\ steps > 0
  /\ Contains(getTrackedBranches, D)
  /\ \/ getParentBranch(D) = A
     \/ /\ getParentBranch(D) \in Names
        /\ DescendantWithin(getParentBranch(D), A, steps - 1)

Descendants(A) == {D \in Names : DescendantWithin(D, A, Cardinality(Names))}

RebasedBranches == {rebased[i].branch : i \in 1..Len(rebased)}

\* C19: in a cascading restack no branch is rebased twice, every descendant is
\* rebased onto its own recorded parent and only after that parent was rebased,
\* and when the run succeeds every transitive descendant of the branch has
\* been rebased.
C19_CascadeOnceInOrder ==
  cmd = "restack" =>
    /\ \A i, j \in 1..Len(rebased) : i # j => rebased[i].branch # rebased[j].branch
    /\ \A i \in 2..Len(rebased) :
         /\ rebased[i].onto = getParentBranch(rebased[i].branch)
         /\ \E j \in 1..(i - 1) : rebased[j].branch = rebased[i].onto
    /\ AtExit("restack", "done") => Descendants(currentBranch) \subseteq RebasedBranches

CascadeFailures == {"ChildCheckoutFailed", "ChildRebaseFailed"}

\* C20: the step of the cascade in which the checkout or the rebase of a
\* descendant fails ends the run at once, with nothing more rebased or checked
\* out; the only thing that follows is the end of the process, which leaves
\* the repository and the registry alone.
C20_CascadeAborts ==
  [][/\ (cmd' = "restack" /\ status' \in CascadeFailures) =>
          /\ pc = "restack_cascade" /\ pc' = "exit"
          /\ rebased' = rebased
          /\ current' \in {current, NoBranch}
          /\ UNCHANGED <<refs, cfgTracked, parent, frames>>
     /\ (cmd = "restack" /\ status \in CascadeFailures) =>
          /\ pc = "exit" /\ pc' = "idle"
          /\ UNCHANGED <<refs, current, cfgTracked, parent>>]_vars

C20_Witness ==
  /\ cmd = "restack" /\ pc = "exit" /\ status \in CascadeFailures
  /\ rebased # <<>>
  /\ currentBranch \notin Descendants(currentBranch)
  /\ \E D \in Descendants(currentBranch) \cap refs :
       /\ D \notin RebasedBranches
       /\ D # Head(frames[Len(frames)].kids)

\* restack ended with exit code 0 after its rebase: nothing left to cascade,
\* the cascade done, or the cascade declined.
RestackSucceeded == cmd = "restack" /\ pc = "exit" /\ status \in {"done", "declined"}

\* C21: whenever restack finishes successfully, the branch checked out is the
\* branch restack was started on.
C21_EndsOnStartBranch == RestackSucceeded => current = currentBranch

\* The restack run that has just ended successfully is a second run: the run
\* before it was a successful restack of the same branch onto the same parent,
\* and the parent holds what it held when that run ended.
SecondRun ==
  /\ RestackSucceeded
  /\ lastRun # NoRun
  /\ lastRun.branch = currentBranch
  /\ lastRun.onto = parentBranch
  /\ lastRun.ontoTip = tipOf(tips, parentBranch)

\* C22: restack is idempotent: a second run on a branch, with no new commits
\* on its parent since the first run, leaves the branch holding exactly what it
\* held after the first run.
C22_RestackIdempotent == SecondRun => tipOf(tips, currentBranch) = lastRun.tip

\* The push the rule of C23 asks for, for what pushBranch saw.
C23_Expected(v) ==
  IF ~v.hasRemote THEN "upstream"
  ELSE IF v.behind > 0 THEN "force"
  ELSE IF v.ahead > 0 THEN "plain"
  ELSE "none"

\* C23: for each branch the push loop of submit processes, whatever it sees,
\* a push that is made is of the kind the rule gives (no remote counterpart:
\* push creating the tracking ref; behind > 0: force push with lease;
\* ahead > 0 and behind = 0: ordinary push), and when nothing is ahead or behind
\* no push is made at all.
C23_PushKind ==
  [][\A B \in Names \cup {NoBranch} :
       (pc = "submit_push" /\ Head(queue) = B) =>
         \A v \in PushViews :
           (SubmitPushWith(v) /\ v.fetchOk) =>
             IF C23_Expected(v) = "none"
             THEN pushes' = pushes /\ status' = status
             ELSE \/ status' = "PushFailed" /\ pushes' = pushes
                  \/ /\ status' = status
                     /\ \E r \in pushes' : r.branch = B /\ r.kind = C23_Expected(v)
                     /\ \A r \in pushes' \ pushes : r.branch = B /\ r.kind = C23_Expected(v)]_vars

C23_Witness ==
  /\ cmd = "submit" /\ pc = "submit_pr"
  /\ {r.kind : r \in pushes} = {"force", "plain"}
  /\ \E B \in Range(branchesToSubmit) : \A r \in pushes : r.branch # B

\* C24: every push a submit run makes is a push of the branch being processed,
\* so that after a successful run each branch of the stack is on the remote
\* with its local tip.
C24_PushesProcessedBranch ==
  cmd = "submit" => \A r \in pushes : r.ref = r.branch

\* The recorded parent of B, trunk standing in when none is recorded.
RecordedBase(B) ==
  IF getParentBranch(B) \in {null, NoBranch} THEN trunk ELSE getParentBranch(B)

\* C25: every pull request a submit run opens has, as its base, the recorded
\* parent of the branch the pull request is for (trunk only when that parent
\* is trunk or none is recorded).
C25_BaseIsRecordedParent ==
  cmd = "submit" => \A r \in opened : r.base = RecordedBase(r.head)

C27_CreateFailureGoesOn ==
  cmd = "submit" =>
    /\ Len(prLog) <= Len(branchesToSubmit)
    /\ \A i \in 1..Len(prLog) : prLog[i].branch = branchesToSubmit[i]
    /\ (pc = "exit" /\ \E i \in 1..Len(prLog) : prLog[i].outcome = "failed") =>
         \/ Len(prLog) = Len(branchesToSubmit) /\ status = "done"
         \/ status = "cancelled"

C27_Witness ==
  /\ AtExit("submit", "done")
  /\ Len(prLog) = 3
  /\ prLog[1].outcome = "failed"
  /\ prLog[2].outcome = "created"
  /\ prLog[3].outcome = "existing"

\* C28: after a create that succeeded, the new branch (now checked out) is
\* tracked and its recorded parent is the branch that was checked out when
\* create was started (trunk when that was trunk, or when HEAD was detached);
\* and no create, successful or not, changes the recorded parent of a branch
\* that existed when it started.
C28_CreateRecordsParent ==
  cmd = "create" =>
    /\ \A X \in pre.refs : getParentBranch(X) = getParentBranchIn(pre.parent, X)
    /\ status = "done" =>
         /\ current \in refs \ pre.refs
         /\ Contains(getTrackedBranches, current)
         /\ getParentBranch(current) =
              IF currentBranch = NoBranch THEN trunk ELSE currentBranch

C28_Witness ==
  /\ AtExit("create", "done")
  /\ currentBranch \in NonTrunk
  /\ getParentBranch(current) = currentBranch
  /\ getParentBranchIn(pre.parent, current) \notin {null, currentBranch}

C30_StackToTrunkTerminates ==
  \A B \in Names \cup {NoBranch} : getStackToTrunk(B) # Diverges

\* C31: after the update of the parent, failed or not, HEAD is back on the
\* branch under restack, and the rebase that follows is made on that branch.
C31_RebaseOnBranch ==
  /\ pc = "restack_rebase" => current = currentBranch
  /\ (cmd = "restack" /\ rebased # <<>>) => rebased[1].branch = currentBranch

\* C32: whenever the parent restack resolved has a remote counterpart, trunk
\* included, and its checkout and pull go through, the parent holds what
\* origin has of it before the rebase starts.
C32_ParentUpdated ==
  [][\A hasRemote, checkoutOk, pullOk, backOk \in BOOLEAN :
       (/\ RestackUpdateParentTipsWith(hasRemote, checkoutOk, pullOk, backOk)
        /\ hasRemote /\ CheckoutOk(parentBranch, checkoutOk) /\ pullOk)
       => Upstream(parentBranch) \in tipOf(tips', parentBranch)]_vars

\* A fast-forward of B under observation o that fails puts B in diverged.
FailedForwardDiverges(B, o) ==
  ("ff" \notin syncClassify(B, o)
   /\ classifyUnmerged(B, o) \cap {"merged", "closed"} = {}
   /\ ~isMerged(B, o.merged)
   /\ B \in refs
   /\ o.view.remoteExists /\ o.view.behind > 0 /\ o.view.ahead = 0)
  => "diverged" \in syncClassify(B, o)

\* C33: a sync run ends before its summary only when the update of trunk
\* failed (or the user cancelled a prompt): no other failure ends it, and a
\* branch whose fast-forward fails is reported as diverged.
C33_OnlyTrunkFailureAborts ==
  /\ (cmd = "sync" /\ pc = "exit") => status \in {"done", "trunk-failed", "cancelled"}
  /\ (pc = "sync_loop" /\ queue # <<>>) =>
       \A o \in Observations(Head(queue)) : FailedForwardDiverges(Head(queue), o)

\* sync.ts 170: `const deleted = mergedBranches.length + closedBranches.length`,
\* the number the summary prints.
deletedReported == Len(mergedBranches) + Len(closedBranches)

\* C34: in the summary of a sync run the count of deleted branches is the
\* number of branches the run deleted, and the count of fast-forwarded branches
\* is the number it fast-forwarded.
C34_CountsAreActual ==
  AtExit("sync", "done") =>
    /\ deletedReported = Cardinality(deleted)
    /\ syncedCount = Cardinality(fastForwarded)

\* C35: a restack or sync run that the user cancelled at a prompt ends on the
\* branch that was checked out when it started, whenever that branch exists.
C35_CancelRestores ==
  (pc = "exit" /\ cmd \in {"restack", "sync"} /\ status = "cancelled"
   /\ currentBranch \in refs)
  => current = currentBranch

\* C36: a failure while pushing one branch does not end submit: no run ends in
\* the push loop, with branches not yet pushed and no pull request looked at.
C36_PushFailureGoesOn ==
  (cmd = "submit" /\ pc = "exit") => status \notin {"PushFailed", "FetchFailed"}

\* The branches the running sync has taken out of the Tracked Set.
Untracked == Range(getTrackedBranchesOf(pre.tracked)) \ Range(getTrackedBranches)

\* C37: when sync has completed, no tracked branch has a parent pointer that
\* names a branch this run removed from the Tracked Set.
C37_NoStalePointers ==
  AtExit("sync", "done") =>
    \A B \in Range(getTrackedBranches) : getParentBranch(B) \notin Untracked

\* C38: a step of sync that tries to delete X and does not remove its ref
\* leaves the registry as it was: X is tracked as before and no parent pointer
\* has changed; a step that removes the ref untracks X.
C38_AllOrNothing ==
  [][\A X \in NonTrunk :
       Deleting(X) =>
         IF X \in refs /\ X \notin refs'
         THEN ~Contains(getTrackedBranchesOf(cfgTracked'), X)
         ELSE cfgTracked' = cfgTracked /\ parent' = parent]_vars

\* C39: a branch that `git branch --merged <trunk>` does not list, and that no
\* later rule finds merged, is not put in the merged group.
C39_MergedOnlyIfListed ==
  (pc = "sync_loop" /\ queue # <<>>) =>
    \A o \in Observations(Head(queue)) :
      (/\ Head(queue) \in refs
       /\ Head(queue) \notin o.merged
       /\ "merged" \notin classifyUnmerged(Head(queue), o))
      => "merged" \notin syncClassify(Head(queue), o)

====
